---- MODULE Spec2Model ----
(***************************************************************************)
(* Model of the document extraction service                                *)
(* (document-extraction-service/app/main.py, app/services/ocr.py,          *)
(* config.py).                                                             *)
(*                                                                         *)
(* Strings are sequences of one-character strings, so that strip, split,   *)
(* join, lower and the suffix computation are computed as Python computes  *)
(* them.  The recognition engine, the image decoder and the PDF            *)
(* rasterizer are external: what they answer for a document is part of the *)
(* document submitted (its content) and of the engine's availability       *)
(* during the request.                                                     *)
(***************************************************************************)
EXTENDS Integers, Sequences, FiniteSets, TLC

(***************************************************************************)
(* Bounds of the model.                                                    *)
(***************************************************************************)
\* Longest text cleaned up on its own.
MaxText == 3
\* Longest batch whose documents are chosen independently of each other.
MaxBatch == 3
\* Most pages of a PDF submitted to extract_text.
MaxPages == 3
\* Batches longer than MaxBatch repeat one document; they reach HardLimit + MaxOver.
MaxOver == 1

(***************************************************************************)
(* Python str helpers.                                                     *)
(***************************************************************************)
\* str.isspace() for the characters of the model.
Whitespace == {" ", "\n", "\t"}

RECURSIVE LStrip(_)
\* str.lstrip()
LStrip(s) ==
  IF s = <<>> THEN <<>>
  ELSE IF Head(s) \in Whitespace THEN LStrip(Tail(s)) ELSE s

RECURSIVE RStrip(_)
\* str.rstrip()
RStrip(s) ==
  IF s = <<>> THEN <<>>
  ELSE IF s[Len(s)] \in Whitespace THEN RStrip(SubSeq(s, 1, Len(s) - 1)) ELSE s

\* str.strip()
Strip(s) == RStrip(LStrip(s))

RECURSIVE SplitFrom(_, _, _)
\* str.split() without arguments: words are the maximal runs of
\* non-whitespace characters; cur is the word being read.
SplitFrom(s, cur, acc) ==
  IF s = <<>> THEN (IF cur = <<>> THEN acc ELSE Append(acc, cur))
  ELSE IF Head(s) \in Whitespace
       THEN SplitFrom(Tail(s), <<>>, IF cur = <<>> THEN acc ELSE Append(acc, cur))
       ELSE SplitFrom(Tail(s), Append(cur, Head(s)), acc)

\* str.split()
Split(s) == SplitFrom(s, <<>>, <<>>)

RECURSIVE Join(_, _)
\* sep.join(parts)
Join(sep, parts) ==
  IF parts = <<>> THEN <<>>
  ELSE IF Len(parts) = 1 THEN parts[1]
  ELSE parts[1] \o sep \o Join(sep, Tail(parts))

\* The clean-up joining the words with two spaces.
CleanUp_TwoSpaces(text) == Join(<<" ", " ">>, Split(Strip(text)))

\* text = text.strip(); text = ' '.join(text.split())
CleanUp(text) == Join(<<" ">>, Split(Strip(text)))

\* str.lower() on one character
LowerChar(c) ==
  CASE c = "P" -> "p" [] c = "D" -> "d" [] c = "F" -> "f" [] c = "N" -> "n"
    [] c = "G" -> "g" [] c = "J" -> "j" [] c = "A" -> "a" [] OTHER -> c

\* str.lower()
Lower(s) == [i \in 1..Len(s) |-> LowerChar(s[i])]

\* str(n) for the page numbers of the model
Digits(n) ==
  IF n < 10 THEN <<ToString(n)>> ELSE <<ToString(n \div 10), ToString(n % 10)>>

(***************************************************************************)
(* Filenames and file-type classification (main.py).                       *)
(***************************************************************************)
\* SUPPORTED_IMAGE_TYPES
SUPPORTED_IMAGE_TYPES ==
  { <<".","p","n","g">>, <<".","j","p","g">>, <<".","j","p","e","g">>,
    <<".","b","m","p">>, <<".","t","i","f","f">>, <<".","w","e","b","p">> }

\* SUPPORTED_PDF_TYPES
SUPPORTED_PDF_TYPES == { <<".","p","d","f">> }

\* SUPPORTED_TYPES
SUPPORTED_TYPES == SUPPORTED_IMAGE_TYPES \cup SUPPORTED_PDF_TYPES

RECURSIVE PathParts(_, _, _)
\* pathlib's parsing of a posix path into components: split on "/",
\* dropping empty components and "." components.
PathParts(s, cur, acc) ==
  LET keep == IF cur = <<>> \/ cur = <<".">> THEN acc ELSE Append(acc, cur)
  IN IF s = <<>> THEN keep
     ELSE IF Head(s) = "/" THEN PathParts(Tail(s), <<>>, keep)
     ELSE PathParts(Tail(s), Append(cur, Head(s)), acc)

\* Path(filename).name: the final component, '' when there is none
PathName(filename) ==
  LET parts == PathParts(filename, <<>>, <<>>)
  IN IF parts = <<>> THEN <<>> ELSE parts[Len(parts)]

\* str.rfind('.') as a 1-based position, 0 when there is no dot
RFindDot(name) ==
  LET dots == {i \in 1..Len(name) : name[i] = "."}
  IN IF dots = {} THEN 0 ELSE CHOOSE i \in dots : \A j \in dots : j <= i

\* Path(filename).suffix: name[i:] for the last dot, unless the dot is the
\* first or the last character of the name
PathSuffix(filename) ==
  LET name == PathName(filename)
      i == RFindDot(name)
  IN IF 1 < i /\ i < Len(name) THEN SubSeq(name, i, Len(name)) ELSE <<>>

\* validate_file_type without the .lower() of the suffix.
validate_file_type_CaseSensitive(filename) ==
  IF filename = <<>>
  THEN [ok |-> FALSE, val |-> "none", code |-> 400, detail |-> "Filename is required"]
  ELSE LET file_ext == PathSuffix(filename)
       IN IF file_ext \in SUPPORTED_IMAGE_TYPES
          THEN [ok |-> TRUE, val |-> "image", code |-> 200, detail |-> ""]
          ELSE IF file_ext \in SUPPORTED_PDF_TYPES
          THEN [ok |-> TRUE, val |-> "pdf", code |-> 200, detail |-> ""]
          ELSE [ok |-> FALSE, val |-> "none", code |-> 400,
                detail |-> "Unsupported file type"]

\* validate_file_type whose final else returns "image" instead of raising.
validate_file_type_DefaultImage(filename) ==
  IF filename = <<>>
  THEN [ok |-> FALSE, val |-> "none", code |-> 400, detail |-> "Filename is required"]
  ELSE LET file_ext == Lower(PathSuffix(filename))
       IN IF file_ext \in SUPPORTED_PDF_TYPES
          THEN [ok |-> TRUE, val |-> "pdf", code |-> 200, detail |-> ""]
          ELSE [ok |-> TRUE, val |-> "image", code |-> 200, detail |-> ""]

\* validate_file_type(filename): the category, or HTTPException(400)
validate_file_type(filename) ==
  IF filename = <<>>
  THEN [ok |-> FALSE, val |-> "none", code |-> 400, detail |-> "Filename is required"]
  ELSE LET file_ext == Lower(PathSuffix(filename))
       IN IF file_ext \in SUPPORTED_IMAGE_TYPES
          THEN [ok |-> TRUE, val |-> "image", code |-> 200, detail |-> ""]
          ELSE IF file_ext \in SUPPORTED_PDF_TYPES
          THEN [ok |-> TRUE, val |-> "pdf", code |-> 200, detail |-> ""]
          ELSE [ok |-> FALSE, val |-> "none", code |-> 400,
                detail |-> "Unsupported file type"]

(***************************************************************************)
(* Images, preprocessing and the recognition engine (services/ocr.py).     *)
(*                                                                         *)
(* An image is what the decoder hands out: `glyph' is what is drawn on it, *)
(* `mode' its colour mode, `ppFail' the preprocessing step that raises on  *)
(* this image, `hostile' the inputs on which the engine fails for it,       *)
(* `processed' whether it is the output of the whole preprocessing chain,  *)
(* and `secs' the seconds the engine spends on it.                         *)
(***************************************************************************)
Glyphs == {"blank", "clean", "messy", "lines"}
Modes == {"RGB", "RGBA"}
PPSteps == {"none", "rgb", "gray", "enhance", "blur"}
Hostility == {"none", "processed", "all"}

\* PROCESSING_TIMEOUT (config.py), in seconds
PROCESSING_TIMEOUT == 300

\* The seconds a recognition takes: well within the budget, or beyond it.
Durations == {1, PROCESSING_TIMEOUT + 100}

\* Every image as decoded from a file (not yet preprocessed).
Images ==
  [glyph : Glyphs, mode : Modes, ppFail : PPSteps, hostile : Hostility,
   processed : {FALSE}, secs : Durations]

\* The placeholder of the events that carry no image.
NoImage ==
  [glyph |-> "-", mode |-> "-", ppFail |-> "-", hostile |-> "-", processed |-> FALSE,
   secs |-> 0]

\* What the engine reads on an image: pytesseract's raw output.
RawText(glyph) ==
  CASE glyph = "blank" -> <<" ", "\n">>
    [] glyph = "clean" -> <<"a", "b", "\n">>
    [] glyph = "messy" -> <<" ", "a", " ", " ", "b", "\t", "\n">>
    [] glyph = "lines" -> <<"a", "\n", "\n", "b", "\n">>

\* preprocess_image_for_ocr(pil_img): the except clause returns pil_img,
\* which the RGB conversion has already rebound when a later step raises.
preprocess_image_for_ocr(pil_img) ==
  IF pil_img.mode # "RGB" /\ pil_img.ppFail = "rgb" THEN pil_img
  ELSE LET rgb == [pil_img EXCEPT !.mode = "RGB"]
       IN IF pil_img.ppFail \in {"gray", "enhance", "blur"} THEN rgb
          ELSE [rgb EXCEPT !.mode = "L", !.processed = TRUE]

\* The language packs of the engine.
InstalledLanguages == {"eng"}

\* pytesseract.image_to_string(image, lang, config): the raw text, or an
\* exception when the engine is unavailable or cannot read this input.
image_to_string(image, lang, engineUp) ==
  IF ~engineUp \/ lang \notin InstalledLanguages \/ image.hostile = "all"
     \/ (image.hostile = "processed" /\ image.processed)
  THEN [ok |-> FALSE, val |-> <<>>]
  ELSE [ok |-> TRUE, val |-> RawText(image.glyph)]

(***************************************************************************)
(* Documents.  The content of an upload is what reading and decoding it    *)
(* give: nothing (zero bytes), bytes no decoder accepts, one image, the    *)
(* pages of a PDF, or a read that raises.                                  *)
(***************************************************************************)
EmptyContent == [kind |-> "empty", pages |-> <<>>]
CorruptContent == [kind |-> "corrupt", pages |-> <<>>]
UnreadableContent == [kind |-> "ioerror", pages |-> <<>>]
ImageContent(img) == [kind |-> "image", pages |-> <<img>>]
PdfContent(imgs) == [kind |-> "pdf", pages |-> imgs]

\* One step the handlers take on a document, in the order taken.
\* `res' is what the step gave: the category for "classify", "ok" or "fail".
Event(op, doc, page, image, lang, res) ==
  [op |-> op, doc |-> doc, page |-> page, image |-> image, lang |-> lang,
   res |-> res]

OkFail(ok) == IF ok THEN "ok" ELSE "fail"

\* "[Page N: No text detected]"
NoTextPlaceholder(n) ==
  <<"[","P","a","g","e"," ">> \o Digits(n) \o
  <<":"," ","N","o"," ","t","e","x","t"," ","d","e","t","e","c","t","e","d","]">>

\* "[Page N: Processing error]"
ErrorPlaceholder(n) ==
  <<"[","P","a","g","e"," ">> \o Digits(n) \o
  <<":"," ","P","r","o","c","e","s","s","i","n","g"," ","e","r","r","o","r","]">>

\* "--- Page N ---"
PageMarker(n) ==
  <<"-","-","-"," ","P","a","g","e"," ">> \o Digits(n) \o <<" ","-","-","-">>

(***************************************************************************)
(* services/ocr.py                                                         *)
(***************************************************************************)
\* The fallback of extract_text_from_image_bytes (its except clause): open
\* again, convert to RGB, recognize the unprocessed image, strip.
ImageFallback(content, lang, engineUp, doc) ==
  LET open == Event("open", doc, 1, NoImage, lang, OkFail(content.kind = "image"))
  IN IF content.kind # "image"
     THEN [ok |-> FALSE, val |-> <<>>, events |-> <<open>>]
     ELSE LET img == content.pages[1]
          IN IF img.mode # "RGB" /\ img.ppFail = "rgb"
             THEN [ok |-> FALSE, val |-> <<>>, events |-> <<open>>]
             ELSE LET rgb == [img EXCEPT !.mode = "RGB"]
                      r == image_to_string(rgb, lang, engineUp)
                      evs == <<open, Event("recognize", doc, 1, rgb, lang, OkFail(r.ok))>>
                  IN IF r.ok
                     THEN [ok |-> TRUE, val |-> Strip(r.val), events |-> evs]
                     ELSE [ok |-> FALSE, val |-> <<>>, events |-> evs]

\* extract_text_from_image_bytes(image_bytes, lang): the text, or RuntimeError
extract_text_from_image_bytes(content, lang, engineUp, doc) ==
  LET open == Event("open", doc, 1, NoImage, lang, OkFail(content.kind = "image"))
  IN IF content.kind # "image"
     THEN LET fb == ImageFallback(content, lang, engineUp, doc)
          IN [fb EXCEPT !.events = <<open>> \o fb.events]
     ELSE LET proc == preprocess_image_for_ocr(content.pages[1])
              r == image_to_string(proc, lang, engineUp)
              evs == <<open, Event("recognize", doc, 1, proc, lang, OkFail(r.ok))>>
          IN IF r.ok
             THEN [ok |-> TRUE, val |-> CleanUp(r.val), events |-> evs]
             ELSE LET fb == ImageFallback(content, lang, engineUp, doc)
                  IN [fb EXCEPT !.events = evs \o fb.events]

\* One iteration of the page loop of extract_text_from_pdf_bytes: the entry
\* appended to page_texts for page n (1-based).
PageText(img, n, lang, engineUp) ==
  LET r == image_to_string(preprocess_image_for_ocr(img), lang, engineUp)
  IN IF ~r.ok THEN ErrorPlaceholder(n)
     ELSE IF Strip(r.val) # <<>> THEN Strip(r.val)
     ELSE NoTextPlaceholder(n)

\* extract_text_from_pdf_bytes without the try/except of the page loop: a
\* page whose recognition raises aborts the document.
extract_text_from_pdf_bytes_NoPageTry(content, lang, dpi, engineUp, doc) ==
  LET raster == Event("rasterize", doc, 0, NoImage, lang, OkFail(content.kind = "pdf"))
      fails(img) == ~image_to_string(preprocess_image_for_ocr(img), lang, engineUp).ok
  IN IF content.kind # "pdf" \/ \E i \in 1..Len(content.pages) : fails(content.pages[i])
     THEN [ok |-> FALSE, val |-> <<>>, events |-> <<raster>>]
     ELSE [ok |-> TRUE,
           val |-> [i \in 1..Len(content.pages) |->
                      PageText(content.pages[i], i, lang, engineUp)],
           events |-> <<raster>> \o
                      [i \in 1..Len(content.pages) |->
                         Event("recognize", doc, i,
                               preprocess_image_for_ocr(content.pages[i]), lang, "ok")]]

\* extract_text_from_pdf_bytes(pdf_bytes, lang, dpi): the list of page
\* texts, or RuntimeError when convert_from_bytes raises
extract_text_from_pdf_bytes(content, lang, dpi, engineUp, doc) ==
  LET raster == Event("rasterize", doc, 0, NoImage, lang, OkFail(content.kind = "pdf"))
  IN IF content.kind # "pdf"
     THEN [ok |-> FALSE, val |-> <<>>, events |-> <<raster>>]
     ELSE LET images == content.pages
          IN [ok |-> TRUE,
              val |-> [i \in 1..Len(images) |->
                         PageText(images[i], i, lang, engineUp)],
              events |-> <<raster>> \o
                         [i \in 1..Len(images) |->
                            LET proc == preprocess_image_for_ocr(images[i])
                            IN Event("recognize", doc, i, proc, lang,
                                     OkFail(image_to_string(proc, lang, engineUp).ok))]]

\* CombinePages numbering the markers from 0 (f"--- Page {i} ---").
CombinePages_ZeroBased(page_texts) ==
  Join(<<"\n", "\n">>,
       [i \in 1..Len(page_texts) |-> PageMarker(i - 1) \o <<"\n">> \o page_texts[i]])

\* "\n\n".join([f"--- Page {i+1} ---\n{text}" for i, text in enumerate(page_texts)])
CombinePages(page_texts) ==
  Join(<<"\n", "\n">>,
       [i \in 1..Len(page_texts) |-> PageMarker(i) \o <<"\n">> \o page_texts[i]])

(***************************************************************************)
(* The inputs of the model.                                                *)
(***************************************************************************)
Ext(name, ext) == name \o ext

\* The filenames submitted.
Filenames ==
  { <<>>,
    <<"a">>,
    <<"a", ".">>,
    <<".", "p", "d", "f">>,
    <<"p", "d", "f">>,
    Ext(<<"a">>, <<".","p","n","g">>),
    Ext(<<"a">>, <<".","P","N","G">>),
    Ext(<<"a">>, <<".","j","p","g">>),
    Ext(<<"a">>, <<".","J","p","e","g">>),
    Ext(<<"a">>, <<".","j","p","e","g">>),
    Ext(<<"a">>, <<".","b","m","p">>),
    Ext(<<"a">>, <<".","t","i","f","f">>),
    Ext(<<"a">>, <<".","t","i","f">>),
    Ext(<<"a">>, <<".","w","e","b","p">>),
    Ext(<<"a">>, <<".","g","i","f">>),
    Ext(<<"a">>, <<".","t","x","t">>),
    Ext(<<"a">>, <<".","p","d","f">>),
    Ext(<<"a">>, <<".","P","D","F">>),
    Ext(<<"a">>, <<".","P","d","f">>),
    Ext(<<"a", ".", "p", "d", "f">>, <<".","t","x","t">>),
    Ext(<<"a", ".", "t", "x", "t">>, <<".","p","d","f">>),
    Ext(<<"a", ".", "p", "n", "g">>, <<".","p","d","f">>),
    Ext(<<"d", ".", "p", "d", "f", "/", "a">>, <<".","p","n","g">>),
    Ext(<<"d", ".", "p", "n", "g", "/", "a">>, <<>>),
    Ext(<<"a", ".", "p", "n", "g">>, <<".">>) }

PngName == Ext(<<"a">>, <<".","p","n","g">>)
JpgName == Ext(<<"b">>, <<".","J","P","G">>)
PdfName == Ext(<<"c">>, <<".","p","d","f">>)
TxtName == Ext(<<"d">>, <<".","t","x","t">>)

\* An image with nothing special about it.
PlainImage(glyph) ==
  [glyph |-> glyph, mode |-> "RGB", ppFail |-> "none", hostile |-> "none",
   processed |-> FALSE, secs |-> 1]

\* An image on which the engine spends more than PROCESSING_TIMEOUT.
SlowImage(glyph) == [PlainImage(glyph) EXCEPT !.secs = PROCESSING_TIMEOUT + 100]

\* The page images of the PDFs submitted.
PdfPages ==
  { PlainImage(g) : g \in Glyphs } \cup
  { [PlainImage("clean") EXCEPT !.hostile = h] : h \in {"processed", "all"} } \cup
  { SlowImage("clean") }

\* All sequences over S of length at most n.
SeqsUpTo(S, n) == UNION { [1..k -> S] : k \in 0..n }

Document(filename, content) == [filename |-> filename, content |-> content]

\* The documents submitted to extract_text.
SingleDocuments ==
  { Document(f, c) : f \in Filenames,
                     c \in { EmptyContent, CorruptContent, UnreadableContent,
                             ImageContent(PlainImage("clean")),
                             PdfContent(<<PlainImage("clean")>>) } } \cup
  { Document(PngName, ImageContent(img)) : img \in Images } \cup
  { Document(PdfName, PdfContent(ps)) : ps \in SeqsUpTo(PdfPages, MaxPages) }

\* The documents a batch is made of.
BatchDocuments ==
  { Document(PngName, ImageContent(PlainImage("clean"))),
    Document(JpgName, ImageContent([PlainImage("messy") EXCEPT !.hostile = "processed"])),
    Document(JpgName, ImageContent(SlowImage("clean"))),
    Document(PngName, EmptyContent),
    Document(JpgName, CorruptContent),
    Document(PngName, UnreadableContent),
    Document(PdfName, PdfContent(<<PlainImage("lines"), PlainImage("blank")>>)),
    Document(PdfName, PdfContent(<<[PlainImage("clean") EXCEPT !.hostile = "all"]>>)),
    Document(PdfName, EmptyContent),
    Document(TxtName, ImageContent(PlainImage("clean"))),
    Document(<<>>, ImageContent(PlainImage("clean"))) }

\* The characters of the texts cleaned up on their own.
TextChars == {"a", "b", " ", "\n", "\t"}

\* The batch limit written in extract_text_batch.
HardLimit == 10

\* The batches submitted: every short batch, and longer ones that repeat
\* one document, up to MaxOver documents over the limit.
Batches ==
  SeqsUpTo(BatchDocuments, MaxBatch) \cup
  { [i \in 1..n |-> d] :
      n \in (MaxBatch + 1)..(HardLimit + MaxOver),
      d \in { Document(PngName, ImageContent(PlainImage("clean"))),
              Document(TxtName, EmptyContent) } }

\* The values BATCH_SIZE_LIMIT is configured with (config.py reads the
\* environment, default 10).
ConfiguredLimits == {2, 10}

(***************************************************************************)
(* State.                                                                  *)
(***************************************************************************)
VARIABLES
  BATCH_SIZE_LIMIT, \* config.py: the configured batch limit
  pc,               \* "received", "batch" (in the loop of extract_text_batch), "done"
  req,              \* the request
  results,          \* extract_text_batch: the results list
  idx,              \* extract_text_batch: the files iterated so far
  last_pdf,         \* the last return of extract_text_from_pdf_bytes
  events,           \* the steps taken for the request, in order
  response,         \* the response of the last request served
  cleaned           \* a text and its successive clean-ups

vars == <<BATCH_SIZE_LIMIT, pc, req, results, idx, last_pdf, events, response, cleaned>>

\* A response: `kind' tells which JSON shape (or HTTPException) it is.
Response(kind, code, detail, file_type, filename, text, has_len, res, total, succ, failed) ==
  [kind |-> kind, code |-> code, detail |-> detail, file_type |-> file_type,
   filename |-> filename, text |-> text, has_text_length |-> has_len,
   text_length |-> Len(text), results |-> res, total_files |-> total,
   successful |-> succ, failed |-> failed]

\* No call of extract_text_from_pdf_bytes yet.
NoPdfCall == [doc |-> 0, raised |-> FALSE, page_texts |-> <<>>]

NoResponse == Response("none", 0, "", "", <<>>, <<>>, FALSE, <<>>, 0, 0, 0)

\* raise HTTPException(status_code=code, detail=detail)
HTTPException(code, detail) ==
  Response("error", code, detail, "", <<>>, <<>>, FALSE, <<>>, 0, 0, 0)

\* The engine and language of a request.
Environments ==
  { [lang |-> "eng", engineUp |-> TRUE], [lang |-> "eng", engineUp |-> FALSE],
    [lang |-> "zzz", engineUp |-> TRUE] }

\* The requests received.  The handlers keep nothing from one request to
\* the next, so a behaviour serves one request.
Requests ==
  { [endpoint |-> "single", files |-> <<d>>, lang |-> env.lang, engineUp |-> env.engineUp] :
      d \in SingleDocuments, env \in Environments } \cup
  { [endpoint |-> "batch", files |-> fs, lang |-> env.lang, engineUp |-> env.engineUp] :
      fs \in Batches, env \in Environments }

Init ==
  /\ BATCH_SIZE_LIMIT \in ConfiguredLimits
  /\ pc = "received"
  /\ req \in Requests
  /\ results = <<>>
  /\ idx = 0
  /\ last_pdf = NoPdfCall
  /\ events = <<>>
  /\ response = NoResponse
  /\ cleaned = <<>>

(***************************************************************************)
(* POST /extract-text (main.py, extract_text).                             *)
(***************************************************************************)
\* What the call of extract_text_from_pdf_bytes for document doc returned
\* (r), when the document is a PDF.
PdfCall(file_type, doc, r) ==
  IF file_type = "pdf"
  THEN [doc |-> doc, raised |-> ~r.ok, page_texts |-> r.val]
  ELSE NoPdfCall

\* The body of extract_text for one upload: its response and its steps.
ExtractTextRun(file, language, dpi, engineUp) ==
  LET cls == validate_file_type(file.filename)
      e_cls == Event("classify", 1, 0, NoImage, language,
                     IF cls.ok THEN cls.val ELSE "error")
      e_read == Event("read", 1, 0, NoImage, language,
                      OkFail(file.content.kind # "ioerror"))
  IN IF ~cls.ok
     THEN [response |-> HTTPException(cls.code, cls.detail), events |-> <<e_cls>>,
           pdf |-> NoPdfCall]
     ELSE IF file.content.kind = "ioerror"
     THEN [response |-> HTTPException(500, "Internal server error"),
           events |-> <<e_cls, e_read>>, pdf |-> NoPdfCall]
     ELSE IF file.content.kind = "empty"
     THEN [response |-> HTTPException(400, "Empty file"),
           events |-> <<e_cls, e_read>>, pdf |-> NoPdfCall]
     ELSE LET file_type == cls.val
              r == IF file_type = "image"
                   THEN extract_text_from_image_bytes(file.content, language, engineUp, 1)
                   ELSE extract_text_from_pdf_bytes(file.content, language, dpi, engineUp, 1)
              extracted_text == IF file_type = "image" THEN r.val ELSE CombinePages(r.val)
              evs == <<e_cls, e_read>> \o r.events
          IN IF ~r.ok
             THEN [response |->
                     HTTPException(400, IF file_type = "image" THEN "Invalid image file"
                                                               ELSE "Invalid PDF file"),
                   events |-> evs, pdf |-> PdfCall(file_type, 1, r)]
             ELSE IF extracted_text = <<>> \/ Strip(extracted_text) = <<>>
             THEN [response |->
                     Response("empty", 200, "No text could be extracted from the document",
                              file_type, file.filename, <<>>, FALSE, <<>>, 0, 0, 0),
                   events |-> evs, pdf |-> PdfCall(file_type, 1, r)]
             ELSE [response |->
                     Response("success", 200, "", file_type, file.filename,
                              extracted_text, TRUE, <<>>, 0, 0, 0),
                   events |-> evs, pdf |-> PdfCall(file_type, 1, r)]

\* The default of the dpi form field.
DefaultDpi == 300

\* The handler serves the request.
ExtractText ==
  /\ pc = "received"
  /\ req.endpoint = "single"
  /\ LET run == ExtractTextRun(req.files[1], req.lang, DefaultDpi, req.engineUp)
     IN /\ response' = run.response
        /\ events' = run.events
        /\ last_pdf' = run.pdf
  /\ pc' = "done"
  /\ UNCHANGED <<cleaned, BATCH_SIZE_LIMIT, req, results, idx>>

(***************************************************************************)
(* POST /extract-text-batch (main.py, extract_text_batch).                 *)
(***************************************************************************)
\* An entry of the results list.
ResultEntry(filename, file_type, text, status, has_len, error) ==
  [filename |-> filename, file_type |-> file_type, text |-> text,
   status |-> status, has_text_length |-> has_len, text_length |-> Len(text),
   error |-> error]

\* The pre-flight checks with an `except HTTPException: raise' clause before
\* the generic one, as extract_text has.
BatchPreflight_Reraised(files) ==
  IF files = <<>> THEN HTTPException(400, "No files provided")
  ELSE IF Len(files) > HardLimit
  THEN HTTPException(400, "Maximum 10 files allowed per batch")
  ELSE NoResponse

\* The pre-flight checks.  Both HTTPExceptions are raised inside the try
\* block, whose `except Exception' turns them into a 500.
BatchPreflight(files) ==
  IF files = <<>> THEN HTTPException(500, "Batch processing failed: No files provided")
  ELSE IF Len(files) > HardLimit
  THEN HTTPException(500, "Batch processing failed: Maximum 10 files allowed per batch")
  ELSE NoResponse

\* The body of the loop for one file: the entry appended and the steps.
BatchFileRun(file, language, engineUp, doc) ==
  LET cls == validate_file_type(file.filename)
      e_read == Event("read", doc, 0, NoImage, language,
                      OkFail(file.content.kind # "ioerror"))
      e_cls == Event("classify", doc, 0, NoImage, language,
                     IF cls.ok THEN cls.val ELSE "error")
  IN IF file.content.kind = "ioerror"
     THEN [entry |-> ResultEntry(file.filename, "unknown", <<>>, "error", FALSE, "read"),
           events |-> <<e_read>>, pdf |-> NoPdfCall]
     ELSE IF ~cls.ok
     THEN [entry |-> ResultEntry(file.filename, "unknown", <<>>, "error", FALSE, cls.detail),
           events |-> <<e_read, e_cls>>, pdf |-> NoPdfCall]
     ELSE LET file_type == cls.val
              r == IF file_type = "image"
                   THEN extract_text_from_image_bytes(file.content, language, engineUp, doc)
                   ELSE extract_text_from_pdf_bytes(file.content, language, DefaultDpi,
                                                    engineUp, doc)
              text == IF file_type = "image" THEN r.val ELSE CombinePages(r.val)
              evs == <<e_read, e_cls>> \o r.events
          IN IF ~r.ok
             THEN [entry |-> ResultEntry(file.filename, "unknown", <<>>, "error", FALSE,
                                         IF file_type = "image"
                                         THEN "Image processing failed"
                                         ELSE "PDF conversion failed"),
                   events |-> evs, pdf |-> PdfCall(file_type, doc, r)]
             ELSE [entry |-> ResultEntry(file.filename, file_type, text, "success", TRUE, ""),
                   events |-> evs, pdf |-> PdfCall(file_type, doc, r)]

\* results.append(...) missing from the except clause of the loop.
AppendResult_SuccessOnly(res, entry) ==
  IF entry.status = "error" THEN res ELSE Append(res, entry)

\* results.insert(0, ...) instead of results.append(...).
AppendResult_Front(res, entry) == <<entry>> \o res

\* results.append(...)
AppendResult(res, entry) == Append(res, entry)

\* The request arrives: the pre-flight checks, then the loop starts.
BatchBegin ==
  /\ pc = "received"
  /\ req.endpoint = "batch"
  /\ LET pre == BatchPreflight(req.files)
     IN IF pre.kind = "error"
        THEN /\ response' = pre
             /\ pc' = "done"
        ELSE /\ response' = NoResponse
             /\ pc' = "batch"
  /\ UNCHANGED <<cleaned, BATCH_SIZE_LIMIT, req, results, events, idx, last_pdf>>

\* One iteration of `for file in files'.
BatchFile ==
  /\ pc = "batch"
  /\ idx < Len(req.files)
  /\ LET doc == idx + 1
         run == BatchFileRun(req.files[doc], req.lang, req.engineUp, doc)
     IN /\ results' = AppendResult(results, run.entry)
        /\ events' = events \o run.events
        /\ last_pdf' = IF run.pdf.doc = 0 THEN last_pdf ELSE run.pdf
  /\ idx' = idx + 1
  /\ UNCHANGED <<cleaned, BATCH_SIZE_LIMIT, pc, req, response>>

\* len([r for r in results if r["status"] == status])
CountStatus(res, status) == Cardinality({i \in 1..Len(res) : res[i].status = status})

\* The loop is over: the summary is returned.
BatchReturn ==
  /\ pc = "batch"
  /\ idx = Len(req.files)
  /\ response' = Response("batch", 200, "", "", <<>>, <<>>, FALSE, results,
                          Len(req.files), CountStatus(results, "success"),
                          CountStatus(results, "error"))
  /\ pc' = "done"
  /\ UNCHANGED <<cleaned, BATCH_SIZE_LIMIT, req, results, events, idx, last_pdf>>

Next ==
  \/ ExtractText
  \/ BatchBegin
  \/ BatchFile
  \/ BatchReturn

Spec == Init /\ [][Next]_vars

(***************************************************************************)
(* The clean-up of recognized text on its own (ocr.py:53-55,               *)
(* main.py:77-79), applied to a text and again to its result.              *)
(***************************************************************************)
\* The clean-up is applied at most this many times to a text.
Applications == 2

CleanUpInit ==
  /\ BATCH_SIZE_LIMIT \in ConfiguredLimits
  /\ pc = "text"
  /\ req = [endpoint |-> "none", files |-> <<>>, lang |-> "eng", engineUp |-> TRUE]
  /\ results = <<>>
  /\ idx = 0
  /\ last_pdf = NoPdfCall
  /\ events = <<>>
  /\ response = NoResponse
  /\ cleaned \in { <<t>> : t \in SeqsUpTo(TextChars, MaxText) }

\* text = text.strip(); text = ' '.join(text.split())
CleanUpText ==
  /\ pc = "text"
  /\ Len(cleaned) <= Applications
  /\ cleaned' = Append(cleaned, CleanUp(cleaned[Len(cleaned)]))
  /\ UNCHANGED <<BATCH_SIZE_LIMIT, pc, req, results, idx, last_pdf, events, response>>

CleanUpNext == CleanUpText

CleanUpSpec == CleanUpInit /\ [][CleanUpNext]_vars

(***************************************************************************)
(* Properties.                                                             *)
(***************************************************************************)
\* The events of the request that are recognitions of page `page' of
\* document `doc'.
Recognitions(doc, page) ==
  {k \in 1..Len(events) :
     events[k].op = "recognize" /\ events[k].doc = doc /\ events[k].page = page}

\* C1: every batch response satisfies successful + failed == total_files ==
\* len(results): each submitted file has exactly one result entry, whose
\* status is "success" or "error".
C1_BatchSummaryConsistent ==
  response.kind = "batch" =>
    /\ response.successful + response.failed = response.total_files
    /\ response.total_files = Len(response.results)
    /\ Len(response.results) = Len(req.files)
    /\ \A i \in 1..Len(response.results) :
         response.results[i].status \in {"success", "error"}

\* A batch response with successes and failures of several causes, a read
\* failure and an unsupported type among them.
C1_Witness ==
  /\ response.kind = "batch"
  /\ response.total_files >= 3
  /\ response.successful >= 1
  /\ response.failed >= 2
  /\ \E i \in 1..Len(req.files) : req.files[i].content.kind = "ioerror"
  /\ \E i \in 1..Len(req.files) : ~validate_file_type(req.files[i].filename).ok

\* The failures C2 lists: classification, decode, zero bytes, engine
\* unavailable.
DocumentFails(file, engineUp) ==
  LET cls == validate_file_type(file.filename)
  IN \/ ~cls.ok
     \/ file.content.kind = "empty"
     \/ file.content.kind = "corrupt"
     \/ cls.val = "image" /\ file.content.kind = "pdf"
     \/ cls.val = "pdf" /\ file.content.kind = "image"
     \/ ~engineUp

\* C2: in a batch, a document with a classification, decode, empty-document
\* or engine-unavailability failure is reported with status "error", for
\* images and PDFs alike, and every document of the batch is still attempted.
C2_FailingDocumentIsErrorEntry ==
  response.kind = "batch" =>
    /\ \A i \in 1..Len(req.files) :
         \E k \in 1..Len(events) : events[k].op = "read" /\ events[k].doc = i
    /\ \A i \in 1..Len(req.files) :
         DocumentFails(req.files[i], req.engineUp) =>
           i <= Len(response.results) /\ response.results[i].status = "error"

\* C3: a batch of more documents than the configured limit BATCH_SIZE_LIMIT
\* is rejected as a whole, with no document read or processed and no
\* results.
C3_OverConfiguredLimitRejected ==
  (req.endpoint = "batch" /\ Len(req.files) > BATCH_SIZE_LIMIT /\ pc # "received") =>
    /\ pc = "done"
    /\ response.kind = "error"
    /\ events = <<>>
    /\ results = <<>>

\* C4: the results of a batch are in input order: the i-th entry carries
\* the filename of the i-th submitted file, whatever the outcomes.
C4_BatchOrderPreserved ==
  req.endpoint = "batch" =>
    /\ Len(results) = idx
    /\ \A i \in 1..Len(results) : results[i].filename = req.files[i].filename
    /\ response.kind = "batch" => response.results = results /\ idx = Len(req.files)

\* A returned batch of three files with different names whose second
\* document failed and whose others succeeded.
C4_Witness ==
  /\ response.kind = "batch"
  /\ Len(response.results) >= 3
  /\ req.files[1].filename # req.files[2].filename
  /\ req.files[2].filename # req.files[3].filename
  /\ req.files[1].filename # req.files[3].filename
  /\ response.results[1].status = "success"
  /\ response.results[2].status = "error"
  /\ response.results[3].status = "success"

\* C5: once a PDF is rasterized into N pages, extract_text_from_pdf_bytes
\* does not raise and returns N entries in page order; every page is
\* recognized, a page whose recognition fails has the error entry in its own
\* slot, and the other pages carry their text.
C5_PdfPagesIsolated ==
  (last_pdf.doc # 0 /\ req.files[last_pdf.doc].content.kind = "pdf") =>
    LET pages == req.files[last_pdf.doc].content.pages
        texts == last_pdf.page_texts
    IN /\ ~last_pdf.raised
       /\ Len(texts) = Len(pages)
       /\ \A i \in 1..Len(pages) :
            /\ Cardinality(Recognitions(last_pdf.doc, i)) >= 1
            /\ \A k \in Recognitions(last_pdf.doc, i) :
                 /\ events[k].res = "fail" => texts[i] = ErrorPlaceholder(i)
                 /\ events[k].res = "ok" =>
                      /\ texts[i] # ErrorPlaceholder(i)
                      /\ pages[i].glyph # "blank" =>
                           texts[i] = Strip(RawText(pages[i].glyph))
       /\ \A i, j \in 1..Len(pages) :
            \A k \in Recognitions(last_pdf.doc, i), l \in Recognitions(last_pdf.doc, j) :
              i < j => k < l

\* Pages [A, B, C], recognition failing on B only: three entries, B's is the
\* error entry, A and C carry their text.
C5_Witness ==
  /\ last_pdf.doc # 0
  /\ req.engineUp /\ req.lang \in InstalledLanguages
  /\ Len(last_pdf.page_texts) = 3
  /\ last_pdf.page_texts[1] = Strip(RawText("lines"))
  /\ last_pdf.page_texts[2] = ErrorPlaceholder(2)
  /\ last_pdf.page_texts[3] = Strip(RawText("clean"))

\* Page i of the last PDF has status Ok: its entry is recognized text.
PageOk(i) ==
  last_pdf.page_texts[i] \notin {NoTextPlaceholder(i), ErrorPlaceholder(i)}

RECURSIVE MarkedFrom(_, _)
\* The markers of pages i.. each followed by that page's content, pages
\* separated by a blank line.
MarkedFrom(contents, i) ==
  IF i > Len(contents) THEN <<>>
  ELSE PageMarker(i) \o <<"\n">> \o contents[i] \o
       (IF i < Len(contents) THEN <<"\n", "\n">> \o MarkedFrom(contents, i + 1)
        ELSE <<>>)

\* C6: in the combined text of a PDF, a page whose status is NoTextDetected
\* or Error has nothing after its marker line; only Ok pages contribute
\* text.
C6_NonOkPagesContributeNoText ==
  (pc = "done" /\ req.endpoint = "single" /\ last_pdf.doc = 1 /\ ~last_pdf.raised
     /\ Len(last_pdf.page_texts) >= 1) =>
    /\ response.kind = "success"
    /\ response.text =
         MarkedFrom([i \in 1..Len(last_pdf.page_texts) |->
                       IF PageOk(i) THEN last_pdf.page_texts[i] ELSE <<>>], 1)

\* Every page of the document was recognized and no recognition gave text.
NoTextAnywhere ==
  /\ validate_file_type(req.files[1].filename).ok
  /\ req.files[1].content.kind = validate_file_type(req.files[1].filename).val
  /\ \A i \in 1..Len(req.files[1].content.pages) :
       \E k \in Recognitions(1, i) : events[k].res = "ok"
  /\ \A k \in 1..Len(events) :
       (events[k].op = "recognize" /\ events[k].res = "ok") =>
         CleanUp(RawText(events[k].image.glyph)) = <<>>

\* C7: when no text is found anywhere in a document, extract_text returns
\* the empty outcome {text: "", message, file_type, filename}, for a blank
\* image and for a PDF all of whose pages are blank.
C7_NoTextGivesEmptyOutcome ==
  (pc = "done" /\ req.endpoint = "single" /\ NoTextAnywhere) =>
    /\ response.kind = "empty"
    /\ response.text = <<>>
    /\ ~response.has_text_length

\* The suffix of a filename, stated on its final component: the part from
\* its last dot on, when that dot is neither its first nor its last
\* character.
SuffixIs(filename, suffix) ==
  LET slashes == {i \in 1..Len(filename) : filename[i] = "/"}
      from == IF slashes = {} THEN 1
              ELSE 1 + CHOOSE i \in slashes : \A j \in slashes : j <= i
      name == SubSeq(filename, from, Len(filename))
  IN IF \E k \in 2..(Len(name) - 1) :
          name[k] = "." /\ \A j \in (k + 1)..Len(name) : name[j] # "."
     THEN /\ Len(suffix) >= 2
          /\ Len(suffix) < Len(name)
          /\ suffix = SubSeq(name, Len(name) - Len(suffix) + 1, Len(name))
          /\ suffix[1] = "."
          /\ \A j \in 2..Len(suffix) : suffix[j] # "."
     ELSE suffix = <<>>

\* The category the spec gives a filename.
ExpectedCategory(filename) ==
  IF filename = <<>> THEN "error"
  ELSE IF \E e \in SUPPORTED_IMAGE_TYPES :
            \E sfx \in {SubSeq(filename, k, Len(filename)) : k \in 1..Len(filename)} :
              SuffixIs(filename, sfx) /\ Lower(sfx) = e
  THEN "image"
  ELSE IF \E sfx \in {SubSeq(filename, k, Len(filename)) : k \in 1..Len(filename)} :
            SuffixIs(filename, sfx) /\ Lower(sfx) = <<".", "p", "d", "f">>
  THEN "pdf"
  ELSE "error"

\* C8: validate_file_type classifies by the lowercased filename suffix only:
\* "image" exactly for the six image suffixes, "pdf" exactly for .pdf, an
\* error for an empty filename and any other or missing suffix, whatever the
\* content of the file.
C8_ClassifiedBySuffix ==
  \A k \in 1..Len(events) :
    events[k].op = "classify" =>
      events[k].res = ExpectedCategory(req.files[events[k].doc].filename)

\* A file named a.PDF holding an image is classified as a PDF.
C8_Witness ==
  /\ pc = "done"
  /\ req.endpoint = "single"
  /\ req.files[1].filename = <<"a", ".", "P", "D", "F">>
  /\ req.files[1].content.kind = "image"
  /\ events[1].op = "classify"
  /\ events[1].res = "pdf"

\* Trimmed, and every whitespace run inside is one space.
IsNormalized(t) ==
  /\ t # <<>> => t[1] \notin Whitespace /\ t[Len(t)] \notin Whitespace
  /\ \A i \in 1..Len(t) : t[i] \in Whitespace => t[i] = " "
  /\ \A i \in 1..(Len(t) - 1) : ~(t[i] \in Whitespace /\ t[i + 1] \in Whitespace)

\* C9: every text the pipeline returns is normalized (trimmed, interior
\* whitespace runs collapsed to one space): the image path, the image
\* fallback path and each PDF page.
C9_ReturnedTextNormalized ==
  /\ (response.kind = "success" /\ response.file_type = "image") =>
       IsNormalized(response.text)
  /\ \A i \in 1..Len(results) :
       (results[i].status = "success" /\ results[i].file_type = "image") =>
         IsNormalized(results[i].text)
  /\ \A i \in 1..Len(last_pdf.page_texts) :
       PageOk(i) => IsNormalized(last_pdf.page_texts[i])

RECURSIVE PageStart(_, _)
\* Where the marker of page i starts in the combined text of page_texts.
PageStart(page_texts, i) ==
  IF i = 1 THEN 1
  ELSE PageStart(page_texts, i - 1) + Len(PageMarker(i - 1)) + 1
       + Len(page_texts[i - 1]) + 2

\* text is, for each page i in ascending order, the line "--- Page i ---",
\* then the page's text, with one blank line between pages and nothing else.
WellMarked(text, page_texts) ==
  LET n == Len(page_texts)
      at(i) == PageStart(page_texts, i)
      m(i) == Len(PageMarker(i))
  IN /\ Len(text) = IF n = 0 THEN 0
                    ELSE at(n) + m(n) + Len(page_texts[n])
     /\ \A i \in 1..n :
          /\ SubSeq(text, at(i), at(i) + m(i) - 1) =
               <<"-","-","-"," ","P","a","g","e"," ">> \o Digits(i) \o <<" ","-","-","-">>
          /\ text[at(i) + m(i)] = "\n"
          /\ SubSeq(text, at(i) + m(i) + 1, at(i) + m(i) + Len(page_texts[i])) =
               page_texts[i]
          /\ i < n => SubSeq(text, at(i) + m(i) + Len(page_texts[i]) + 1,
                             at(i) + m(i) + Len(page_texts[i]) + 2) = <<"\n", "\n">>

\* The entry of page i is made from physical page i.
FromPhysicalPage(doc, i) ==
  last_pdf.page_texts[i] \in
    { Strip(RawText(req.files[doc].content.pages[i].glyph)),
      NoTextPlaceholder(i), ErrorPlaceholder(i) }

\* C10: the combined text of an N-page PDF lists the pages in ascending
\* physical order, "--- Page i ---" right before the text of page i, one
\* blank line between pages, in extract_text and in extract_text_batch.
C10_PagesMarkedInOrder ==
  (last_pdf.doc # 0 /\ ~last_pdf.raised) =>
    LET d == last_pdf.doc
        texts == last_pdf.page_texts
    IN /\ Len(texts) = Len(req.files[d].content.pages)
       /\ \A i \in 1..Len(texts) : FromPhysicalPage(d, i)
       /\ (req.endpoint = "single" /\ response.kind = "success") =>
            WellMarked(response.text, texts)
       /\ (req.endpoint = "batch" /\ d <= Len(results)) =>
            /\ results[d].status = "success"
            /\ WellMarked(results[d].text, texts)

\* A three-page PDF with different pages, the second blank, returned by
\* extract_text.
C10_Witness ==
  /\ pc = "done"
  /\ req.endpoint = "single"
  /\ response.kind = "success"
  /\ Len(last_pdf.page_texts) = 3
  /\ last_pdf.page_texts[1] = Strip(RawText("lines"))
  /\ last_pdf.page_texts[2] = NoTextPlaceholder(2)
  /\ last_pdf.page_texts[3] = Strip(RawText("clean"))

\* The same in a batch: a two-page PDF after another document.
C10_BatchReached ==
  /\ response.kind = "batch"
  /\ last_pdf.doc >= 2
  /\ Len(last_pdf.page_texts) = 2

\* The document is unclassifiable, zero-byte or undecodable.
StructurallyInvalid(file) ==
  LET category == ExpectedCategory(file.filename)
  IN \/ category = "error"
     \/ file.content.kind \in {"empty", "corrupt"}
     \/ category = "image" /\ file.content.kind = "pdf"
     \/ category = "pdf" /\ file.content.kind = "image"

\* The events of the request with this op on document doc.
EventsOf(op, doc) ==
  {k \in 1..Len(events) : events[k].op = op /\ events[k].doc = doc}

\* C11: a document that is unclassifiable, zero-byte or undecodable fails
\* its extraction without any call of the recognition engine for it, in
\* extract_text and in extract_text_batch.
C11_FailFast ==
  \A d \in 1..Len(req.files) :
    StructurallyInvalid(req.files[d]) =>
      /\ EventsOf("recognize", d) = {}
      /\ (req.endpoint = "single" /\ pc = "done") => response.kind = "error"
      /\ (req.endpoint = "batch" /\ d <= Len(results)) => results[d].status = "error"

\* A returned batch whose first document was recognized and whose second,
\* a zero-byte file with a supported name, failed.
C11_Witness ==
  /\ response.kind = "batch"
  /\ Len(req.files) >= 2
  /\ EventsOf("recognize", 1) # {}
  /\ req.files[2].content.kind = "empty"
  /\ ExpectedCategory(req.files[2].filename) # "error"
  /\ response.results[2].status = "error"

\* The same for extract_text with an undecodable image.
C11_SingleReached ==
  /\ pc = "done"
  /\ req.endpoint = "single"
  /\ req.files[1].content.kind = "corrupt"
  /\ ExpectedCategory(req.files[1].filename) = "image"
  /\ response.code = 400

\* C12: a document whose filename is empty or has an unsupported suffix
\* fails before its content is read, in extract_text and in
\* extract_text_batch.
C12_ClassifiedBeforeRead ==
  \A d \in 1..Len(req.files) :
    ExpectedCategory(req.files[d].filename) = "error" => EventsOf("read", d) = {}

RECURSIVE SecondsFrom(_, _)
\* The seconds the engine spent on document doc in events k.. of the request.
SecondsFrom(doc, k) ==
  IF k > Len(events) THEN 0
  ELSE (IF events[k].op = "recognize" /\ events[k].doc = doc
        THEN events[k].image.secs ELSE 0) + SecondsFrom(doc, k + 1)

\* C13: a document whose processing exceeds PROCESSING_TIMEOUT is failed
\* with a timeout error; the batch still returns, with the other documents
\* processed and their results kept.
C13_OverBudgetDocumentTimesOut ==
  response.kind = "batch" =>
    /\ Len(response.results) = Len(req.files)
    /\ \A d \in 1..Len(req.files) :
         SecondsFrom(d, 1) > PROCESSING_TIMEOUT => response.results[d].status = "error"

\* The recognitions of page `page' of document doc, in the order made.
RecognitionSeq(doc, page) ==
  LET ks == Recognitions(doc, page)
      nth[n \in 1..Cardinality(ks)] ==
        CHOOSE k \in ks : Cardinality({j \in ks : j <= k}) = n
  IN [n \in 1..Cardinality(ks) |-> events[nth[n]]]

\* What C14 requires of the recognitions made for one page and of whether
\* the page was reported as failed.
RetriedOnce(attempts, original, failed) ==
  /\ Len(attempts) <= 2
  /\ (Len(attempts) >= 1 /\ attempts[1].res = "fail") =>
       /\ Len(attempts) = 2
       /\ ~attempts[2].image.processed
       /\ attempts[2].image.glyph = original.glyph
       /\ attempts[2].lang = attempts[1].lang
  /\ (Len(attempts) >= 1 /\ attempts[1].res = "ok") => Len(attempts) = 1
  /\ (Len(attempts) >= 1 /\ failed) => Len(attempts) = 2 /\ attempts[2].res = "fail"

\* C14: for a single image and for each page of a PDF, a failed recognition
\* of the preprocessed image is retried exactly once on the original image
\* with the same language, and the page is reported as failed only if the
\* retry fails too.
C14_FallbackOncePerPage ==
  /\ (req.endpoint = "single" /\ pc = "done"
        /\ req.files[1].content.kind = "image"
        /\ validate_file_type(req.files[1].filename).val = "image") =>
       RetriedOnce(RecognitionSeq(1, 1), req.files[1].content.pages[1],
                   response.kind = "error")
  /\ (last_pdf.doc # 0 /\ ~last_pdf.raised) =>
       \A i \in 1..Len(last_pdf.page_texts) :
         RetriedOnce(RecognitionSeq(last_pdf.doc, i),
                     req.files[last_pdf.doc].content.pages[i],
                     last_pdf.page_texts[i] = ErrorPlaceholder(i))

\* The first recognition of every page is made on what
\* preprocess_image_for_ocr returned for the page's image.
FirstRecognitions ==
  {k \in 1..Len(events) :
     /\ events[k].op = "recognize"
     /\ \A j \in Recognitions(events[k].doc, events[k].page) : k <= j}

\* C15: preprocess_image_for_ocr does not raise, and when one of its steps
\* raises it returns the image it was given, unmodified (same colour mode),
\* whichever step failed.
C15_PreprocessFailureReturnsOriginal ==
  \A k \in FirstRecognitions :
    LET original == req.files[events[k].doc].content.pages[events[k].page]
    IN (original.ppFail # "none" /\ ~events[k].image.processed) =>
         events[k].image = original

\* C16: the clean-up of text (strip, split on whitespace, join with single
\* spaces) is idempotent, and leaves a text that is already trimmed and
\* single-spaced unchanged.
C16_CleanUpIdempotent ==
  /\ Len(cleaned) >= 3 => cleaned[3] = cleaned[2]
  /\ (Len(cleaned) >= 2 /\ IsNormalized(cleaned[1])) => cleaned[2] = cleaned[1]

\* A text the clean-up changed, cleaned up twice.
C16_Witness ==
  /\ Len(cleaned) = 3
  /\ cleaned[1] = <<"a", "\n", " ">>
  /\ cleaned[2] = <<"a">>
  /\ cleaned[3] = <<"a">>

\* A trimmed, single-spaced text with a space inside, cleaned up.
C16_NormalizedReached ==
  /\ Len(cleaned) >= 2
  /\ cleaned[1] = <<"a", " ", "b">>
  /\ cleaned[2] = cleaned[1]

\* C17: a pre-flight rejection of extract_text_batch (no files, or more
\* than 10) reaches the caller as a 500 "Batch processing failed", not as
\* the 400 raised at the check, while extract_text answers 400 for an
\* unsupported type, an empty file and an invalid image or PDF.
C17_PreflightRejectionIs500 ==
  /\ (req.endpoint = "batch" /\ pc # "received"
        /\ (req.files = <<>> \/ Len(req.files) > HardLimit)) =>
       /\ pc = "done"
       /\ response.kind = "error"
       /\ response.code = 500
       /\ response.detail \in
            { "Batch processing failed: No files provided",
              "Batch processing failed: Maximum 10 files allowed per batch" }
  /\ (req.endpoint = "single" /\ pc = "done" /\ response.kind = "error"
        /\ response.detail \in { "Filename is required", "Unsupported file type",
                                 "Empty file", "Invalid image file",
                                 "Invalid PDF file" }) =>
       response.code = 400
  /\ (req.endpoint = "single" /\ pc = "done"
        /\ req.files[1].content.kind # "ioerror"
        /\ StructurallyInvalid(req.files[1])) =>
       response.code = 400

\* A batch of 11 files, rejected.
C17_Witness ==
  /\ pc = "done"
  /\ req.endpoint = "batch"
  /\ Len(req.files) = HardLimit + 1
  /\ response.code = 500

\* An empty batch, rejected.
C17_EmptyReached ==
  /\ pc = "done"
  /\ req.endpoint = "batch"
  /\ req.files = <<>>
  /\ response.code = 500

\* extract_text answering 400 for a zero-byte file.
C17_SingleReached ==
  /\ pc = "done"
  /\ req.endpoint = "single"
  /\ req.files[1].content.kind = "empty"
  /\ response.code = 400
  /\ response.detail = "Empty file"

====
